---------------------------- MODULE Spec2Model ----------------------------
(***************************************************************************)
(* Model of app.py, the Toss transactions dashboard: load_and_clean_data,  *)
(* get_kpi_metrics, the chart builders and main().  One behaviour is one   *)
(* browser session: the file uploader, the year and month pills and the    *)
(* privacy checkbox are the state, and every widget change re-runs main()  *)
(* from top to bottom (one render pass).                                   *)
(*                                                                         *)
(* A DataFrame is [cols |-> set of column names, rows |-> sequence of      *)
(* records].  A cell that can be blank in the sheet is <<>> (NaN) or       *)
(* <<v>>.  TLA+ strings are ASCII, so the Korean headers and labels of the *)
(* export are written romanised; the comment beside each gives the         *)
(* original.                                                               *)
(***************************************************************************)
EXTENDS Integers, Sequences, FiniteSets, TLC

VARIABLES sort_ties,            \* how this build's quicksort leaves rows with equal keys
          uploaded_file,        \* st.file_uploader: NaN, or Some(the sheet)
          raw_df,               \* what load_and_clean_data returned (memoized)
          selected_years,       \* st.pills "Years to compare"
          selected_months_int,  \* st.pills "Months to view", as month numbers
          privacy_mode,         \* st.sidebar.checkbox "Privacy Mode"
          view                  \* what the last run of main() computed and drew

vars == <<sort_ties, uploaded_file, raw_df, selected_years, selected_months_int,
          privacy_mode, view>>

---------------------------------------------------------------------------
(* Bounds of the model *)

MaxRows == 2        \* longest statement built from RowPool
MaxShortRows == 1   \* longest statement of a sheet that lacks a column
MaxLedger == 18     \* longest generated ledger (more than TopN remarks)

(* head(15) of make_remarks_chart *)
TopN == 15

---------------------------------------------------------------------------
(* Cells *)

NaN == <<>>
Some(v) == <<v>>
IsNa(c) == c = NaN
Val(c) == c[1]

\* F(e), with e computed once and F given its value
With(e, F(_)) == CHOOSE v \in {F(x) : x \in {e}} : TRUE

\* a function or sequence, every element computed
Concrete(f) == f @@ <<>>

RECURSIVE SumTo(_, _)
SumTo(s, n) == IF n = 0 THEN 0 ELSE s[n] + SumTo(s, n - 1)

\* Series.sum()
SumSeq(s) == With(s, LAMBDA t : SumTo(t, Len(t)))

Abs(n) == IF n < 0 THEN -n ELSE n

---------------------------------------------------------------------------
(* The vendor sheet *)

\* '거래 일시', '적요', '거래 유형', '거래 기관', '계좌번호', '거래 금액',
\* '거래 후 잔액', '메모', and the index artifact 'Unnamed: 0'
RawColumns ==
    {"georae_ilsi", "jeogyo", "georae_yuhyeong", "georae_gigwan", "gyejwa_beonho",
     "georae_geumaek", "georae_hu_janaek", "memo", "Unnamed: 0"}

\* the columns= argument of df.rename
RenameTable ==
    [c \in RawColumns \ {"Unnamed: 0"} |->
        CASE c = "georae_ilsi"      -> "Date"
          [] c = "jeogyo"           -> "Remarks"
          [] c = "georae_yuhyeong"  -> "Transaction_Type"
          [] c = "georae_gigwan"    -> "Bank_Name"
          [] c = "gyejwa_beonho"    -> "Account_Number"
          [] c = "georae_geumaek"   -> "Transaction_Amount"
          [] c = "georae_hu_janaek" -> "Balance"
          [] c = "memo"             -> "Memo"]

\* the vendor labels that .replace translates: '체크카드결제', '입금', '출금',
\* '프로모션입금', '오픈뱅킹', '이자입금', 'ATM출금', 'KB국민은행', 'BC카드'
TypeTable ==
    [l \in {"chekeukadeu_gyeolje", "ipgeum", "chulgeum", "peuromosyeon_ipgeum",
            "opeunbaengking", "ija_ipgeum", "ATM_chulgeum", "KB_gungmineunhaeng",
            "BC_kadeu"} |->
        CASE l = "chekeukadeu_gyeolje" -> "Check Card"
          [] l = "ipgeum"              -> "Deposit"
          [] l = "chulgeum"            -> "Withdrawal"
          [] l = "peuromosyeon_ipgeum" -> "Cashback"
          [] l = "opeunbaengking"      -> "Open Banking"
          [] l = "ija_ipgeum"          -> "Interest Deposit"
          [] l = "ATM_chulgeum"        -> "ATM Withdrawal"
          [] l = "KB_gungmineunhaeng"  -> "KB Bank"
          [] l = "BC_kadeu"            -> "ATM Deposit"]

\* A cell of the date column, 'YYYY.MM.DD HH:MM:SS', as its fields
DateText(y, m, d, h) == [Y |-> y, M |-> m, D |-> d, h |-> h]

\* pd.to_datetime(format='%Y.%m.%d %H:%M:%S'): the instant, counted in hours
\* on a calendar of 31-day months (day 1 of month 1 of year 0 is hour 0)
to_datetime(t) == (((t.Y * 12 + (t.M - 1)) * 31) + (t.D - 1)) * 24 + t.h

\* the .dt accessors
dt_hour(ts) == ts % 24
dt_date(ts) == ts \div 24
dt_month(ts) == ((ts \div (24 * 31)) % 12) + 1
dt_year(ts) == ts \div (24 * 31 * 12)
\* .dt.to_period('M').astype(str): "YYYY-MM"
dt_period_M(ts) == <<dt_year(ts), dt_month(ts)>>

\* One sheet row.  The export writes a memo cell and an index cell on every row.
RawRow(date, remarks, type, bank, account, amount, balance) ==
    [georae_ilsi |-> date, jeogyo |-> remarks, georae_yuhyeong |-> type,
     georae_gigwan |-> bank, gyejwa_beonho |-> account, georae_geumaek |-> amount,
     georae_hu_janaek |-> balance, memo |-> NaN] @@ ("Unnamed: 0" :> 0)

\* pd.read_excel(uploaded_file, sheet_name=0, skiprows=8) of a sheet that holds the
\* columns `cols` and the rows `rows`
read_excel(cols, rows) ==
    [cols |-> cols,
     rows |-> Concrete([i \in DOMAIN rows |-> Concrete([c \in cols |-> rows[i][c]])])]

EmptyFrame == [cols |-> {}, rows |-> <<>>]

---------------------------------------------------------------------------
(* DataFrame operations *)

\* df.rename(columns=RenameTable): a header the table does not name is kept, and a
\* header of the table that the sheet lacks is passed over (errors='ignore')
Rename(df) ==
    With(df, LAMBDA d :
        LET ren(c) == IF c \in DOMAIN RenameTable THEN RenameTable[c] ELSE c
            src(n) == CHOOSE c \in d.cols : ren(c) = n
        IN With({ren(c) : c \in d.cols}, LAMBDA new :
            [cols |-> new,
             rows |-> Concrete([i \in DOMAIN d.rows |->
                         Concrete([n \in new |-> d.rows[i][src(n)]])])]))

\* df[[names]].copy(), every name being a column
Project(df, names) ==
    With(df, LAMBDA d :
        [cols |-> names,
         rows |-> Concrete([i \in DOMAIN d.rows |->
                     Concrete([c \in names |-> d.rows[i][c]])])])

\* df.drop(columns=names), every name being a column
DropColumns(df, names) == With(df, LAMBDA d : Project(d, d.cols \ names))

\* df[name] = f(row), row by row
AssignColumn(df, name, f(_)) ==
    With(df, LAMBDA d :
        [cols |-> d.cols \cup {name},
         rows |-> Concrete([i \in DOMAIN d.rows |->
                     Concrete([c \in d.cols \cup {name} |->
                         IF c = name THEN f(d.rows[i]) ELSE d.rows[i][c]])])])

\* df[mask]: a new frame holding the rows that satisfy keep, in their order
Where(df, keep(_)) ==
    With(df, LAMBDA d : [cols |-> d.cols, rows |-> SelectSeq(d.rows, keep)])

\* df[name]
Column(df, name) ==
    With(df, LAMBDA d : Concrete([i \in DOMAIN d.rows |-> d.rows[i][name]]))

\* df.empty
Empty(df) == Len(df.rows) = 0

\* what a call returns: a value, or the exception it raised
Returned(v) == [ok |-> TRUE, error |-> "", value |-> v]
Raised(e, v) == [ok |-> FALSE, error |-> e, value |-> v]

---------------------------------------------------------------------------
(* 2. DATA LOADING & PROCESSING *)

\* .replace(TypeTable) on one cell: NaN and unlisted labels are left as they are
TranslateType(c) ==
    IF IsNa(c) THEN c
    ELSE IF Val(c) \in DOMAIN TypeTable THEN Some(TypeTable[Val(c)]) ELSE c

\* .fillna(0).astype(int) on one cell
FillAccount(c) == IF IsNa(c) THEN 0 ELSE Val(c)

\* lines 47-57 on a frame that holds every column they read
Standardize(df) ==
    AssignColumn(
     AssignColumn(
      AssignColumn(
       AssignColumn(
        AssignColumn(df, "Transaction_Type", LAMBDA r : TranslateType(r["Transaction_Type"])),
        "Date", LAMBDA r : to_datetime(r["Date"])),
       "Time", LAMBDA r : dt_hour(r["Date"])),
      "DateOnly", LAMBDA r : dt_date(r["Date"])),
     "Month", LAMBDA r : dt_period_M(r["Date"]))

\* A column the code reads or drops and the frame lacks raises KeyError.  The date
\* cells of the model all match the format, so to_datetime does not raise.
load_and_clean_data(file) ==
    With(Rename(file), LAMBDA d1 :
        IF ~({"Unnamed: 0", "Memo"} \subseteq d1.cols) THEN Raised("KeyError", EmptyFrame)
        ELSE IF "Account_Number" \notin d1.cols THEN Raised("KeyError", EmptyFrame)
        ELSE IF "Transaction_Type" \notin d1.cols THEN Raised("KeyError", EmptyFrame)
        ELSE IF "Date" \notin d1.cols THEN Raised("KeyError", EmptyFrame)
        ELSE Returned(Standardize(
                AssignColumn(DropColumns(d1, {"Unnamed: 0", "Memo"}), "Account_Number",
                             LAMBDA r : FillAccount(r["Account_Number"])))))

---------------------------------------------------------------------------
(* Sorting and grouping *)

\* The strings of the model in str order (what groupby(sort=True) orders its keys
\* by): capitals before lower case, then letter by letter.
StrOrder ==
    <<"ATM Deposit", "ATM Withdrawal", "Amazon", "Bakery", "Cafe", "Cashback",
      "Check Card", "Cinema", "Dentist", "Deposit", "Florist", "Gift", "Grocer",
      "Hotel", "Insurance", "Interest Deposit", "KB Bank", "Kiosk", "Laundry",
      "Market", "Open Banking", "Optician", "Pharmacy", "Rent", "Salary", "Taxi",
      "Utility", "Withdrawal", "Zoo", "haeoe_songgeum">>

StrRank(s) == CHOOSE i \in DOMAIN StrOrder : StrOrder[i] = s

\* The keys of a group-by in the order groupby lists them
KeysInOrder(K) == With(K, LAMBDA keys : SelectSeq(StrOrder, LAMBDA x : x \in keys))

\* s.sort_values(col, ascending=False) with the default kind='quicksort', which is
\* not stable: rows with equal keys come out in an order the build decides, here
\* either their order in s ("kept") or the reverse of it ("reversed").
SortDescending(s, col, ties) ==
    With(s, LAMBDA t :
        With(Concrete([i \in DOMAIN t |->
                1 + Cardinality({j \in DOMAIN t : t[j][col] > t[i][col]})
                  + Cardinality({j \in DOMAIN t :
                        /\ t[j][col] = t[i][col]
                        /\ IF ties = "kept" THEN j < i ELSE j > i})]),
             LAMBDA place :
                Concrete([p \in DOMAIN t |-> t[CHOOSE i \in DOMAIN t : place[i] = p]])))

\* .head(n)
head(s, n) == With(s, LAMBDA t : SubSeq(t, 1, IF Len(t) < n THEN Len(t) ELSE n))

Amounts(df) == Column(df, "Transaction_Amount")

Deposits(df) == Where(df, LAMBDA r : r["Transaction_Amount"] > 0)
Withdrawals(df) == Where(df, LAMBDA r : r["Transaction_Amount"] < 0)

\* .groupby(df['Date'].dt.to_period('M').astype(str))['Transaction_Amount'].sum()
MonthlySum(df) ==
    With(df, LAMBDA d :
        Concrete([m \in {dt_period_M(d.rows[i]["Date"]) : i \in DOMAIN d.rows} |->
            SumSeq(Amounts(Where(d, LAMBDA r : dt_period_M(r["Date"]) = m)))]))

---------------------------------------------------------------------------
(* get_kpi_metrics *)

ZeroMetrics ==
    [deposit |-> 0, withdrawal |-> 0, balance |-> 0, count |-> 0, cashback |-> 0,
     interest |-> 0]

TypeSum(df, type) ==
    SumSeq(Amounts(Where(df, LAMBDA r : r["Transaction_Type"] = Some(type))))

\* lines 69-87: the six metrics of a frame that holds rows
Metrics(df, ties) ==
    IF "Transaction_Amount" \notin df.cols THEN Raised("KeyError", ZeroMetrics)
    ELSE IF "Balance" \notin df.cols THEN Raised("KeyError", ZeroMetrics)
    ELSE Returned(
        [deposit    |-> SumSeq(Amounts(Deposits(df))),
         withdrawal |-> Abs(SumSeq(Amounts(Withdrawals(df)))),
         balance    |-> SortDescending(df.rows, "Date", ties)[1]["Balance"],
         count      |-> Len(df.rows),
         cashback   |-> TypeSum(df, "Cashback"),
         interest   |-> TypeSum(df, "Interest Deposit")])

\* get_kpi_metrics without its df.empty guards: .iloc[0] of an empty frame
get_kpi_metrics_unguarded(df, ties) ==
    With(df, LAMBDA d :
        IF Empty(d) THEN Raised("IndexError", ZeroMetrics) ELSE Metrics(d, ties))

get_kpi_metrics(df, ties) ==
    With(df, LAMBDA d :
        IF Empty(d) THEN Returned(ZeroMetrics) ELSE Metrics(d, ties))

---------------------------------------------------------------------------
(* 3. ALTAIR PLOTTING FUNCTIONS: the data frame each chart is built on *)

\* `source` of make_donut_chart
make_donut_chart(df) ==
    With(df, LAMBDA d :
        IF "Transaction_Amount" \notin d.cols THEN Raised("KeyError", <<>>)
        ELSE Returned(
            <<[Category |-> "Income", Value |-> SumSeq(Amounts(Deposits(d)))],
              [Category |-> "Expenses", Value |-> Abs(SumSeq(Amounts(Withdrawals(d))))]>>))

\* `trend_df` of make_bar_trend: the outer merge of the two monthly series, a month
\* missing on one side filled with 0
make_bar_trend(df) ==
    With(df, LAMBDA d :
        IF "Transaction_Amount" \notin d.cols THEN Raised("KeyError", <<>>)
        ELSE With(MonthlySum(Deposits(d)), LAMBDA inc :
             With(MonthlySum(Withdrawals(d)), LAMBDA exp :
                Returned(Concrete(
                    [m \in DOMAIN inc \cup DOMAIN exp |->
                        [Income  |-> IF m \in DOMAIN inc THEN inc[m] ELSE 0,
                         Expense |-> IF m \in DOMAIN exp THEN Abs(exp[m]) ELSE 0]])))))

\* `net` of make_net_income_chart: inc - exp aligns the two series on the union of
\* their months, and a month that one of them lacks gets NaN
make_net_income_chart(df) ==
    With(df, LAMBDA d :
        IF "Transaction_Amount" \notin d.cols THEN Raised("KeyError", <<>>)
        ELSE With(MonthlySum(Deposits(d)), LAMBDA inc :
             With(MonthlySum(Withdrawals(d)), LAMBDA exp :
                Returned(Concrete(
                    [m \in DOMAIN inc \cup DOMAIN exp |->
                        IF m \in DOMAIN inc /\ m \in DOMAIN exp
                        THEN Some(inc[m] - Abs(exp[m])) ELSE NaN])))))

\* df['Hour'] = df['Date'].dt.hour: make_heatmap writes the column into the frame
\* it was handed
WithHour(df) == AssignColumn(df, "Hour", LAMBDA r : dt_hour(r["Date"]))

\* `hourly` of make_heatmap: df['Hour'].value_counts()
make_heatmap(df) ==
    With(WithHour(df), LAMBDA h :
        Returned(Concrete(
            [x \in {h.rows[i]["Hour"] : i \in DOMAIN h.rows} |->
                Len(SelectSeq(h.rows, LAMBDA r : r["Hour"] = x))])))

\* the rows of the sign that was not asked for
SubsetOtherSign(df, is_negative) == IF is_negative THEN Deposits(df) ELSE Withdrawals(df)

\* `subset` of make_remarks_chart
Subset(df, is_negative) == IF is_negative THEN Withdrawals(df) ELSE Deposits(df)

\* subset.groupby('Remarks')['Transaction_Amount'].sum().abs().reset_index(): one row
\* per remark in key order; rows whose remark is NaN belong to no group
GroupByRemarks(subset) ==
    With(subset, LAMBDA d :
        With(KeysInOrder({Val(d.rows[i]["Remarks"]) :
                            i \in {j \in DOMAIN d.rows : ~IsNa(d.rows[j]["Remarks"])}}),
             LAMBDA keys :
                Concrete([k \in DOMAIN keys |->
                    [Remarks |-> keys[k],
                     Transaction_Amount |->
                        Abs(SumSeq(Amounts(Where(d, LAMBDA r : r["Remarks"] = Some(keys[k])))))]])))

\* `grouped` of make_remarks_chart; the chart of an empty subset has no rows
make_remarks_chart(df, is_negative, ties) ==
    With(df, LAMBDA d :
        IF "Transaction_Amount" \notin d.cols THEN Raised("KeyError", <<>>)
        ELSE With(Subset(d, is_negative), LAMBDA subset :
            IF Empty(subset) THEN Returned(<<>>)
            ELSE IF "Remarks" \notin subset.cols THEN Raised("KeyError", <<>>)
            ELSE Returned(head(SortDescending(GroupByRemarks(subset),
                                              "Transaction_Amount", ties), TopN))))

\* `stats` of make_transaction_type_chart
make_transaction_type_chart(df, ties) ==
    With(df, LAMBDA d :
        IF "Transaction_Amount" \notin d.cols THEN Raised("KeyError", <<>>)
        ELSE With(KeysInOrder({Val(d.rows[i]["Transaction_Type"]) :
                     i \in {j \in DOMAIN d.rows : ~IsNa(d.rows[j]["Transaction_Type"])}}),
             LAMBDA keys :
                Returned(SortDescending(
                    [k \in DOMAIN keys |->
                        With(TypeSum(d, keys[k]), LAMBDA total :
                            [Transaction_Type |-> keys[k], Transaction_Amount |-> total,
                             Abs_Amount |-> Abs(total)])],
                    "Abs_Amount", ties))))

DisplayColumns ==
    {"Date", "Transaction_Type", "Remarks", "Transaction_Amount", "Balance", "Bank_Name"}

\* the columns Privacy Mode overwrites with "****"
MaskedColumns == {"Remarks", "Transaction_Amount", "Balance", "Bank_Name"}

Mask(df) ==
    With(df, LAMBDA d :
        [cols |-> d.cols,
         rows |-> Concrete([i \in DOMAIN d.rows |->
                     Concrete([c \in d.cols |->
                         IF c \in MaskedColumns THEN "****" ELSE d.rows[i][c]])])])

\* `display_df`, the frame st.dataframe shows
make_display_df(filtered_df, privacy) ==
    With(filtered_df, LAMBDA d :
        IF ~(DisplayColumns \subseteq d.cols) THEN Raised("KeyError", EmptyFrame)
        ELSE IF privacy THEN Returned(Mask(Project(d, DisplayColumns)))
        ELSE Returned(Project(d, DisplayColumns)))

---------------------------------------------------------------------------
(* 4. MAIN LAYOUT *)

ReturnedNone == [ok |-> TRUE, error |-> "None", value |-> EmptyFrame]

\* raw_df of main(): load_and_clean_data of what the uploader holds
Load(file) == IF IsNa(file) THEN ReturnedNone ELSE load_and_clean_data(Val(file))

\* sorted(raw_df['Date'].dt.year.unique())
available_years(df) == {dt_year(df.rows[i]["Date"]) : i \in DOMAIN df.rows}

\* [available_years[-1]] if available_years else available_years
default_years(df) ==
    With(available_years(df), LAMBDA years :
        IF years = {} THEN {} ELSE {CHOOSE y \in years : \A z \in years : z <= y})

\* raw_df[raw_df['Date'].dt.year.isin(selected_years)]
FilterYears(df, years) == Where(df, LAMBDA r : dt_year(r["Date"]) \in years)

\* available_months_int of the year-filtered frame (the month pills' options)
month_options(df, years) ==
    With(FilterYears(df, years), LAMBDA y :
        {dt_month(y.rows[i]["Date"]) : i \in DOMAIN y.rows})

\* line 349 alone: no month selected falls back to the year-filtered frame
FilterMonthsFallback(year_filtered_df, months) ==
    IF months = {} THEN year_filtered_df
    ELSE Where(year_filtered_df, LAMBDA r : dt_month(r["Date"]) \in months)

\* lines 347-352: filtered_df
FilterMonths(year_filtered_df, months) ==
    IF months = {} THEN Where(year_filtered_df, LAMBDA r : dt_month(r["Date"]) \in {})
    ELSE Where(year_filtered_df, LAMBDA r : dt_month(r["Date"]) \in months)

\* the charts drawn from a frame whose remarks Privacy Mode has already overwritten
ChartFrameRedacted(filtered_df, privacy) ==
    IF privacy /\ "Remarks" \in filtered_df.cols
    THEN AssignColumn(filtered_df, "Remarks", LAMBDA r : Some("****"))
    ELSE filtered_df

\* lines 383-415: the frame main() hands to the chart builders, whatever the
\* checkbox of line 375 says
ChartFrame(filtered_df, privacy) == filtered_df

BlankView(status) ==
    [status |-> status, calls |-> <<>>, filtered_df |-> EmptyFrame,
     metrics |-> ZeroMetrics, trend |-> <<>>, donut |-> <<>>, net |-> <<>>,
     hourly |-> <<>>, top_withdrawals |-> <<>>, top_deposits |-> <<>>,
     type_totals |-> <<>>, display_df |-> EmptyFrame]

\* the calls of one run, in order
Calls ==
    <<"get_kpi_metrics", "make_bar_trend", "make_donut_chart", "make_net_income_chart",
      "make_heatmap", "make_remarks_chart", "make_remarks_chart",
      "make_transaction_type_chart", "st.dataframe">>

\* lines 355-454 on filtered_df.  make_heatmap leaves its Hour column in the frame,
\* so the calls after it are handed hour_df.  An exception ends the run at the call
\* that raised it.
Draw(filtered_df, chart_df, hour_df, privacy, ties) ==
    With(<<get_kpi_metrics(filtered_df, ties),
           make_bar_trend(chart_df),
           make_donut_chart(chart_df),
           make_net_income_chart(chart_df),
           make_heatmap(chart_df),
           make_remarks_chart(hour_df, TRUE, ties),
           make_remarks_chart(hour_df, FALSE, ties),
           make_transaction_type_chart(hour_df, ties),
           make_display_df(hour_df, privacy)>>,
         LAMBDA r :
            With({i \in 1..9 : ~r[i].ok}, LAMBDA bad :
            With(IF bad = {} THEN 9 ELSE CHOOSE i \in bad : \A j \in bad : i <= j,
                 LAMBDA last :
                    LET out(i, blank) == IF i <= last THEN r[i].value ELSE blank
                    IN [status |-> IF bad = {} THEN "rendered" ELSE "exception",
                        calls |-> [i \in 1..last |->
                                     [fn |-> Calls[i],
                                      arg |-> IF i = 1 THEN filtered_df
                                              ELSE IF i <= 5 THEN chart_df ELSE hour_df]],
                        filtered_df |-> IF last >= 5 THEN hour_df ELSE filtered_df,
                        metrics |-> out(1, ZeroMetrics), trend |-> out(2, <<>>),
                        donut |-> out(3, <<>>), net |-> out(4, <<>>),
                        hourly |-> out(5, <<>>), top_withdrawals |-> out(6, <<>>),
                        top_deposits |-> out(7, <<>>), type_totals |-> out(8, <<>>),
                        display_df |-> out(9, EmptyFrame)])))

\* One run of main() below the uploader
main(raw, years, months, privacy, ties) ==
    IF ~raw.ok THEN BlankView("load_error")
    ELSE IF raw.error = "None" THEN BlankView("no_data")
    ELSE IF years = {} THEN BlankView("warn_year")
    ELSE With(FilterMonths(FilterYears(raw.value, years), months), LAMBDA filtered_df :
         With(ChartFrame(filtered_df, privacy), LAMBDA chart_df :
         With(WithHour(chart_df), LAMBDA hour_df :
            Draw(filtered_df, chart_df, hour_df, privacy, ties))))

---------------------------------------------------------------------------
(* The files a session can be given *)

\* Statement rows: two years, two months each, two pairs of rows with the same
\* timestamp, a blank remark, a blank account number, a blank and an untranslated
\* transaction type ('해외송금'), and amounts of each sign and zero.
RowPool ==
    <<RawRow(DateText(2023, 1, 5, 9), Some("Salary"), Some("ipgeum"), "toss", Some(7), 3, 3),
      RawRow(DateText(2023, 1, 5, 9), Some("Cafe"), Some("chekeukadeu_gyeolje"), "toss", NaN, -2, 1),
      RawRow(DateText(2023, 2, 10, 21), Some("Cafe"), Some("haeoe_songgeum"), "kb", Some(7), -1, 0),
      RawRow(DateText(2024, 1, 3, 9), NaN, Some("peuromosyeon_ipgeum"), "toss", Some(7), 1, 2),
      RawRow(DateText(2024, 2, 7, 14), Some("Salary"), Some("ija_ipgeum"), "toss", Some(7), 2, 4),
      RawRow(DateText(2024, 2, 7, 14), Some("Gift"), NaN, "kb", Some(7), 0, 5)>>

\* the statements of at most `longest` rows
Statements(longest) ==
    UNION {[1..n -> {RowPool[i] : i \in DOMAIN RowPool}] : n \in 0..longest}

\* the headers of a sheet with one of the exported columns missing
IncompleteColumns == {RawColumns \ {c} : c \in RawColumns}

LedgerRemarks ==
    <<"Amazon", "Bakery", "Cafe", "Cinema", "Dentist", "Florist", "Gift", "Grocer",
      "Hotel", "Insurance", "Kiosk", "Laundry", "Market", "Optician", "Pharmacy",
      "Rent", "Salary", "Taxi", "Utility", "Zoo">>

\* A ledger of n rows over d remarks in file order of ascending date, one row a day
\* from 2024.01.01 on (the second half of the rows in February) and the last two
\* rows at the same minute: row i is of remark 1 + (i-1) mod d, two consecutive rows
\* share a magnitude, and the signs follow `pattern` ("refund" is withdrawals closed
\* by one deposit, "mixed" alternates the two).
Ledger(n, d, pattern) ==
    [i \in 1..n |->
        LET mag == (i + 1) \div 2
            day == IF i = n /\ n > 1 THEN n - 1 ELSE i
            amount == CASE pattern = "out" -> -mag
                        [] pattern = "in" -> mag
                        [] pattern = "refund" -> IF i = n THEN mag ELSE -mag
                        [] OTHER -> IF i % 2 = 0 THEN mag ELSE -mag
        IN RawRow(DateText(2024, IF 2 * day <= n THEN 1 ELSE 2, day, day % 24),
                  Some(LedgerRemarks[1 + ((i - 1) % d)]),
                  Some(IF amount < 0 THEN "chulgeum" ELSE "ipgeum"),
                  "toss", Some(7), amount, 100 + i)]

Ledgers ==
    {Ledger(n, d, pattern) : n \in {MaxLedger - 1, MaxLedger},
                              d \in {1, 2, TopN, MaxLedger - 1, MaxLedger},
                              pattern \in {"out", "in", "refund", "mixed"}}

---------------------------------------------------------------------------
(* The session *)

Init ==
    /\ sort_ties \in {"kept", "reversed"}
    /\ uploaded_file = NaN
    /\ raw_df = ReturnedNone
    /\ selected_years = {}
    /\ selected_months_int = {}
    /\ privacy_mode = TRUE
    /\ view = BlankView("no_file")

\* the widgets main() reached in the run that drew `v`
HasYearPills(v) == v.status \in {"warn_year", "rendered", "exception"}
HasMonthPills(v) == v.status \in {"rendered", "exception"}
HasCheckbox(v) == v.status = "rendered" \/ (v.status = "exception" /\ Len(v.calls) > 1)

\* A file arrives in the uploader: main() runs with every widget at its default.
Run(file) ==
    \E raw \in {Load(Some(file))} :
    \E years \in {default_years(raw.value)} :
    \E months \in {month_options(raw.value, years)} :
       /\ uploaded_file' = Some(file)
       /\ raw_df' = raw
       /\ selected_years' = years
       /\ selected_months_int' = months
       /\ privacy_mode' = TRUE
       /\ view' = main(raw, years, months, TRUE, sort_ties)
       /\ UNCHANGED sort_ties

UploadStatement ==
    /\ IsNa(uploaded_file)
    /\ \E rows \in Statements(MaxRows) : Run(read_excel(RawColumns, rows))

UploadIncomplete ==
    /\ IsNa(uploaded_file)
    /\ \E cols \in IncompleteColumns, rows \in Statements(MaxShortRows) :
          Run(read_excel(cols, rows))

UploadLedger ==
    /\ IsNa(uploaded_file)
    /\ \E rows \in Ledgers : Run(read_excel(RawColumns, rows))

\* The file is taken out of the uploader: main() stops at st.stop().
RemoveFile ==
    /\ ~IsNa(uploaded_file)
    /\ uploaded_file' = NaN
    /\ raw_df' = ReturnedNone
    /\ selected_years' = {}
    /\ selected_months_int' = {}
    /\ privacy_mode' = TRUE
    /\ view' = BlankView("no_file")
    /\ UNCHANGED sort_ties

\* A widget changed: main() runs again on the memoized raw_df.  A widget the run
\* does not reach is back at its default when it is next drawn.
Rerun(years, months, privacy) ==
    \E v \in {main(raw_df, years, months, privacy, sort_ties)} :
       /\ view' = v
       /\ selected_years' = years
       /\ selected_months_int' = IF HasMonthPills(v) THEN months ELSE {}
       /\ privacy_mode' = IF HasCheckbox(v) THEN privacy ELSE TRUE
       /\ UNCHANGED <<sort_ties, uploaded_file, raw_df>>

SelectYears ==
    /\ HasYearPills(view)
    /\ \E years \in SUBSET available_years(raw_df.value) :
          /\ years # selected_years
          /\ \E options \in {month_options(raw_df.value, years)} :
                Rerun(years,
                      IF HasMonthPills(view)
                         /\ options = month_options(raw_df.value, selected_years)
                      THEN selected_months_int ELSE options,
                      privacy_mode)

SelectMonths ==
    /\ HasMonthPills(view)
    /\ \E months \in SUBSET month_options(raw_df.value, selected_years) :
          /\ months # selected_months_int
          /\ Rerun(selected_years, months, privacy_mode)

TogglePrivacy ==
    /\ HasCheckbox(view)
    /\ Rerun(selected_years, selected_months_int, ~privacy_mode)

Next ==
    \/ UploadStatement
    \/ UploadIncomplete
    \/ UploadLedger
    \/ RemoveFile
    \/ SelectYears
    \/ SelectMonths
    \/ TogglePrivacy

Spec == Init /\ [][Next]_vars

---------------------------------------------------------------------------
(* Properties *)

\* main() got as far as filtering and calling get_kpi_metrics
Drawn == view.status \in {"rendered", "exception"}

\* the columns of the canonical table
CanonicalColumns ==
    {"Date", "Remarks", "Transaction_Type", "Bank_Name", "Account_Number",
     "Transaction_Amount", "Balance", "Time", "DateOnly", "Month"}

\* the canonical table holds every column (the sheet lacked none)
Complete == raw_df.ok /\ CanonicalColumns \subseteq raw_df.value.cols

\* the frame the run handed to its i-th call
Handed(i) == view.calls[i].arg

\* C1: in a run with a year selected and no month selected, every aggregate (the
\* KPI metrics, every chart builder and the raw table) is handed a frame of zero
\* rows, never the year-filtered or the whole canonical table.
C1_NoMonthMeansEmptyFrame ==
    (Drawn /\ selected_years # {} /\ selected_months_int = {}) =>
        /\ Len(view.calls) >= 1
        /\ \A i \in DOMAIN view.calls : Empty(Handed(i))
        /\ Empty(view.filtered_df)
        /\ Empty(view.display_df)

\* a run with no month selected over a year that holds transactions
C1_Witness ==
    /\ view.status = "rendered"
    /\ selected_months_int = {}
    /\ ~Empty(FilterYears(raw_df.value, selected_years))
    /\ Len(view.calls) = 9

RECURSIVE SumNumbers(_, _)
\* the sum of the numbers of a series, its NaN passed over (Series.sum)
SumNumbers(f, S) ==
    IF S = {} THEN 0
    ELSE LET m == CHOOSE x \in S : TRUE
         IN (IF IsNa(f[m]) THEN 0 ELSE Val(f[m])) + SumNumbers(f, S \ {m})

\* C2: on every filtered set, KPI deposit minus KPI withdrawal equals the sum over
\* the months of the NetIncome series, also when a month has amounts of one sign only.
C2_NetIncomeSumsToKpi ==
    (view.status = "rendered" /\ Complete) =>
        view.metrics.deposit - view.metrics.withdrawal
            = SumNumbers(view.net, DOMAIN view.net)

\* C3: on an empty filtered set every aggregator returns: the six KPI metrics are
\* 0, and the monthly series, the net income series, the hourly histogram and both
\* remark rankings are empty.
C3_EmptyFrameGivesZeroes ==
    (Drawn /\ Complete /\ Empty(Handed(1))) =>
        /\ view.status = "rendered"
        /\ view.metrics = ZeroMetrics
        /\ DOMAIN view.trend = {}
        /\ DOMAIN view.net = {}
        /\ DOMAIN view.hourly = {}
        /\ Len(view.top_withdrawals) = 0
        /\ Len(view.top_deposits) = 0

\* every aggregator ran on an empty filtered set of a table that holds rows
C3_Witness ==
    /\ Complete
    /\ Len(raw_df.value.rows) > 0
    /\ Len(view.calls) = 9
    /\ Empty(Handed(1))
    /\ view.metrics.count = 0

\* the rows of df that carry its latest Date
Latest(df) ==
    {i \in DOMAIN df.rows : \A j \in DOMAIN df.rows : df.rows[j]["Date"] <= df.rows[i]["Date"]}

\* C4: on a non-empty filtered set KPI balance is the Balance of a row with the
\* latest Date, and among several such rows of the one that comes first in the file.
C4_BalanceOfFirstLatestRow ==
    (view.status = "rendered" /\ Complete /\ ~Empty(Handed(1))) =>
        LET first == CHOOSE i \in Latest(Handed(1)) : \A j \in Latest(Handed(1)) : i <= j
        IN view.metrics.balance = Handed(1).rows[first]["Balance"]

\* the sheet columns the rename table maps to a field of Transaction
RequiredColumns ==
    {"georae_ilsi", "jeogyo", "georae_yuhyeong", "georae_gigwan", "gyejwa_beonho",
     "georae_geumaek", "georae_hu_janaek"}

\* C5: when the sheet lacks a column that the rename table maps to date, remarks,
\* transaction type, bank name, account number, amount or balance,
\* load_and_clean_data fails and no aggregator or chart builder is called.
C5_MissingColumnFailsTheLoad ==
    (~IsNa(uploaded_file) /\ ~(RequiredColumns \subseteq Val(uploaded_file).cols)) =>
        /\ ~raw_df.ok
        /\ Len(view.calls) = 0

\* C6: a sheet without the 'Unnamed: 0' column or without the memo column loads
\* without error, to the canonical table of the same sheet with the column present.
C6_PruningAbsentColumnIsNoError ==
    (/\ ~IsNa(uploaded_file)
     /\ RequiredColumns \subseteq Val(uploaded_file).cols
     /\ Val(uploaded_file).cols # RawColumns) =>
        /\ raw_df.ok
        /\ \E rows \in Statements(MaxShortRows) :
              /\ read_excel(Val(uploaded_file).cols, rows) = Val(uploaded_file)
              /\ raw_df = load_and_clean_data(read_excel(RawColumns, rows))

\* C7: after any sequence of runs the canonical table is the one normalization
\* returned, and no aggregator or chart builder has added a column to, or written
\* into, the filtered frame it was handed.
C7_FramesAreReadOnly ==
    Drawn =>
        /\ raw_df = Load(uploaded_file)
        /\ view.filtered_df
              = FilterMonths(FilterYears(raw_df.value, selected_years), selected_months_int)

\* what a run computed besides the raw-data table view
Aggregates(v) ==
    <<v.status, v.calls, v.filtered_df, v.metrics, v.trend, v.donut, v.net, v.hourly,
      v.top_withdrawals, v.top_deposits, v.type_totals>>

\* the raw-data table view of v is the six display columns of the frame, their
\* four sensitive columns overwritten exactly when Privacy Mode is on
TableViewOf(v, privacy) ==
    v.status = "rendered" =>
        /\ v.display_df.cols = DisplayColumns
        /\ Len(v.display_df.rows) = Len(v.filtered_df.rows)
        /\ \A i \in DOMAIN v.display_df.rows : \A c \in DisplayColumns :
              IF privacy /\ c \in MaskedColumns
              THEN v.display_df.rows[i][c] = "****"
              ELSE v.display_df.rows[i][c] = v.filtered_df.rows[i][c]

\* C8: two runs on the same table and the same year and month selection that differ
\* in the Privacy Mode checkbox alone compute the same KPI metrics and hand the same
\* frames to every chart; only the table view's copy is redacted.
C8_PrivacyOnlyRedactsTheTableView ==
    [][(/\ Drawn /\ Drawn'
        /\ uploaded_file' = uploaded_file
        /\ selected_years' = selected_years
        /\ selected_months_int' = selected_months_int
        /\ privacy_mode' # privacy_mode) =>
            /\ Aggregates(view') = Aggregates(view)
            /\ TableViewOf(view', privacy_mode')]_vars

\* Privacy Mode has been switched off and the table view shows the rows as they are
C8_Witness ==
    /\ view.status = "rendered"
    /\ ~privacy_mode
    /\ Complete
    /\ ~Empty(view.display_df)
    /\ view.display_df = Project(view.filtered_df, DisplayColumns)

\* the rows of df of the sign asked for
OfSign(df, is_negative) ==
    {i \in DOMAIN df.rows :
        IF is_negative THEN df.rows[i]["Transaction_Amount"] < 0
                       ELSE df.rows[i]["Transaction_Amount"] > 0}

\* ranking is at most 15 long, in non-increasing order of amount, one entry per
\* remark, and each entry is the absolute sum of the rows of df of the sign asked
\* for that carry its remark, of which there is at least one
IsRanking(ranking, df, is_negative) ==
    /\ Len(ranking) <= 15
    /\ \A i, j \in DOMAIN ranking :
          /\ i < j => ranking[i].Transaction_Amount >= ranking[j].Transaction_Amount
          /\ i # j => ranking[i].Remarks # ranking[j].Remarks
    /\ \A k \in DOMAIN ranking :
          LET of == {i \in OfSign(df, is_negative) :
                        df.rows[i]["Remarks"] = Some(ranking[k].Remarks)}
          IN /\ of # {}
             /\ ranking[k].Transaction_Amount
                   = Abs(SumNumbers([i \in of |-> Some(df.rows[i]["Transaction_Amount"])], of))

\* C9: each ranking make_remarks_chart builds has at most 15 entries, is in
\* non-increasing order of absolute summed amount, sums only the transactions of the
\* sign asked for, grouped by Remarks, and lists only remarks that occur on a
\* transaction of that sign.
C9_RemarkRankings ==
    (Drawn /\ Len(view.calls) > 7) =>
        /\ IsRanking(view.top_withdrawals, Handed(6), TRUE)
        /\ IsRanking(view.top_deposits, Handed(7), FALSE)

\* a ranking cut to 15 entries of a frame with more than 15 withdrawal remarks
C9_Witness ==
    /\ view.status = "rendered"
    /\ Len(view.top_withdrawals) = 15
    /\ Cardinality({Handed(6).rows[i]["Remarks"] : i \in OfSign(Handed(6), TRUE)}) > 15
    /\ \E i \in OfSign(Handed(6), FALSE) : TRUE

\* C10: in every canonical table Transaction_Type is non-null on every row: a label
\* of the translation table is replaced by its canonical name and any other value
\* of the sheet is kept as it is.
C10_TransactionTypeNeverNull ==
    (~IsNa(uploaded_file) /\ raw_df.ok) =>
        \A i \in DOMAIN raw_df.value.rows :
            LET cell == Val(uploaded_file).rows[i]["georae_yuhyeong"]
                type == raw_df.value.rows[i]["Transaction_Type"]
            IN /\ ~IsNa(type)
               /\ IF ~IsNa(cell) /\ Val(cell) \in DOMAIN TypeTable
                  THEN type = Some(TypeTable[Val(cell)])
                  ELSE type = cell

=============================================================================
